---- MODULE Spec2Model ----
(***************************************************************************)
(* rseq2midi: the sequence interpreter of src/rseq2midi.cpp (rseqDo and    *)
(* Track_t).  The RSEQ file is a byte array read through a file cursor,    *)
(* the sixteen tracks are records that mirror Track_t field by field, and  *)
(* every `case` of the opcode switch is one action.  Track_t's methods are *)
(* operators from a track record to a track record.                        *)
(***************************************************************************)
EXTENDS Integers, Sequences, FiniteSets, TLC

VARIABLES
    prog,         \* bytes of the RSEQ file from the first track offset on
    gLabels,      \* gData.gLabels: offset -> label text (bytes)
    ignoreJumps,  \* -i
    debugCtrls,   \* -d
    gTrack,       \* gData.gTrack[16]
    fpos,         \* ftell(rseq)
    pc,           \* where rseqDo stands
    iTrk,         \* rseqDo's loop variable i
    gTrkCnt,      \* rseqDo's gTrkCnt
    midi,         \* bytes written to the MIDI file
    nCalls        \* calls taken so far (bounds the model, see MaxCalls)

vars == <<prog, gLabels, ignoreJumps, debugCtrls, gTrack, fpos, pc, iTrk, gTrkCnt, midi, nCalls>>

-----------------------------------------------------------------------------
(* Bounds of the model: calls taken in one conversion, and the number of  *)
(* commands in the files of each family of inputs (see Sessions).          *)

MaxCalls == 3
NoteMaxLen == 4
SplitMaxLen == 4
FlowMaxLen == 3
InlineMaxLen == 2
ErrMaxLen == 2
MaxTick == 130

-----------------------------------------------------------------------------
(* Integer widths.  A u32 that counts ticks (gWait, gGPos, a note's pos,   *)
(* the result of ReadVarLen) is kept as its two 16-bit halves, a record    *)
(* [h, l], so that its arithmetic wraps at 2^32 as the code's does.  File  *)
(* offsets and command bytes stay plain numbers; the one u32 among them    *)
(* that does not fit is 0xFFFFFFFF, what a read at the end of the file     *)
(* gives, and it is written Ones32.                                        *)

NumTracks == 16
Half == 65536
EOF == 0 - 1
Ones32 == 0 - 1

\* the u32 of a number below 2^31
W(n) == [h |-> n \div Half, l |-> n % Half]

\* the u32 0xFFFFFFFF
WOnes == [h |-> Half - 1, l |-> Half - 1]

Add32(a, b) ==
    [h |-> (a.h + b.h + (a.l + b.l) \div Half) % Half, l |-> (a.l + b.l) % Half]

Sub32(a, b) ==
    IF a.l >= b.l
    THEN [h |-> (a.h + Half - b.h) % Half, l |-> a.l - b.l]
    ELSE [h |-> (a.h + Half - b.h + Half - 1) % Half, l |-> a.l + Half - b.l]

Lt32(a, b) == a.h < b.h \/ (a.h = b.h /\ a.l < b.l)
Gt32(a, b) == Lt32(b, a)

\* x >> 7 and (x << 7) | g for a u32 x and g < 128
Shr7(a) == [h |-> a.h \div 128, l |-> a.l \div 128 + (a.h % 128) * 512]
Shl7Or(a, g) == [h |-> (a.h * 128 + a.l \div 512) % Half, l |-> ((a.l * 128) % Half) + g]

\* the sign of a u32 converted to int
SignS32(a) == IF a.h >= Half \div 2 THEN 0 - 1 ELSE IF a.h = 0 /\ a.l = 0 THEN 0 ELSE 1

\* a byte as fgetc returns it, kept in a u32: its low seven bits, its bit 7,
\* and its low eight bits (EOF is all ones)
Low7(c) == IF c = EOF THEN 127 ELSE c % 128
HasBit7(c) == c = EOF \/ c >= 128
U8(c) == IF c = Ones32 THEN 255 ELSE c % 256

\* ev | gIndx for a status byte ev and a track index below 16
RECURSIVE BitOr(_, _)
BitOr(a, b) ==
    IF a = 0 THEN b
    ELSE IF b = 0 THEN a
    ELSE (IF a % 2 = 1 \/ b % 2 = 1 THEN 1 ELSE 0) + 2 * BitOr(a \div 2, b \div 2)

RECURSIVE Pow2(_)
Pow2(n) == IF n = 0 THEN 1 ELSE 2 * Pow2(n - 1)

\* x >> n on a number
Shr(x, n) == x \div Pow2(n)

RemoveAt(s, k) == SubSeq(s, 1, k - 1) \o SubSeq(s, k + 1, Len(s))

-----------------------------------------------------------------------------
(* The input file.  Everything before the first track offset is the RSEQ   *)
(* and DATA chunk headers; the interpreter addresses the file by absolute  *)
(* offsets, mdOff being the offset of the first track.                     *)

Header ==
    << 82, 83, 69, 81, 254, 255, 1, 0, 0, 0, 0, 0, 0, 32, 0, 1,
       0, 0, 0, 0, 0, 0, 0, 0, 0, 0, 0, 0, 0, 0, 0, 0,
       68, 65, 84, 65, 0, 0, 0, 0, 0, 0, 0, 12 >>

mdOff == Len(Header)

FileEnd(f) == mdOff + Len(f)

\* fgetc at position p: the byte, or EOF
fgetc(f, p) ==
    IF p < mdOff THEN Header[p + 1]
    ELSE IF p < FileEnd(f) THEN f[p - mdOff + 1]
    ELSE EOF

\* the file position after an fgetc at p
fnext(f, p) == IF p < FileEnd(f) THEN p + 1 ELSE p

\* v |= fgetc(f) << i, from the high byte down.  An EOF is the int -1, whose
\* shift sets every bit from i up; the reads after it are EOF too and set
\* the bits below, so a read that meets the end of the file gives Ones32.
RECURSIVE ReadBEFrom(_, _, _, _)
ReadBEFrom(f, p, sh, v) ==
    IF sh < 0 THEN [v |-> v, p |-> p]
    ELSE IF fgetc(f, p) = EOF THEN [v |-> Ones32, p |-> p]
    ELSE ReadBEFrom(f, fnext(f, p), sh - 8, BitOr(v, fgetc(f, p) * Pow2(sh)))

ReadBE(f, p, b) == ReadBEFrom(f, p, b - 8, 0)

\* base + v in u32, for an offset v read by ReadBE: 0xFFFFFFFF + base wraps
AddOff(v, base) == IF v = Ones32 THEN base - 1 ELSE v + base

\* hang: the loop of ReadVarLen never meets a byte with the top bit clear,
\* which is what happens at the end of the file (EOF has every bit set)
RECURSIVE ReadVarLenFrom(_, _, _)
ReadVarLenFrom(f, p, t) ==
    LET c  == fgetc(f, p)
        t2 == Shl7Or(t, Low7(c))
    IN  IF ~HasBit7(c) THEN [v |-> t2, p |-> fnext(f, p), hang |-> FALSE]
        ELSE IF c = EOF THEN [v |-> t2, p |-> p, hang |-> TRUE]
        ELSE ReadVarLenFrom(f, fnext(f, p), t2)

ReadVarLen(f, p) == ReadVarLenFrom(f, p, W(0))

-----------------------------------------------------------------------------
(* Track_t *)

Reset(idx) ==
    [gIndx |-> idx, gStat |-> 0, gTrns |-> 0, gRPNR |-> 0, gWait |-> W(0),
     gDPos |-> 0, gGPos |-> W(0), gRPos |-> 0, gNote |-> <<>>, gData |-> <<>>]

Start(t, adr) ==
    [t EXCEPT !.gStat = 1, !.gTrns = 0, !.gDPos = adr, !.gGPos = W(0), !.gRPos = 0,
              !.gData = <<>>, !.gNote = <<>>]

\* while(n > 127) { c++; n >>= 7; }
RECURSIVE DeltaCount(_)
DeltaCount(n) == IF Gt32(n, W(127)) THEN 1 + DeltaCount(Shr7(n)) ELSE 0

\* (t >> (7*i)) & 127
RECURSIVE Group7(_, _)
Group7(n, sh) == IF sh = 0 THEN n.l % 128 ELSE Group7(Shr7(n), sh - 1)

\* the groups of PushDelta without the continuation bit
DeltaBytesUnflagged(n) == [k \in 1..(DeltaCount(n) + 1) |-> Group7(n, DeltaCount(n) + 1 - k)]

DeltaBytes(n) ==
    LET c == DeltaCount(n)
    IN  [k \in 1..(c + 1) |->
            LET sh == c + 1 - k
            IN  Group7(n, sh) + (IF sh # 0 THEN 128 ELSE 0)]

PushDelta(t, n) == [t EXCEPT !.gData = @ \o DeltaBytes(n)]

ProcDelta(t) == [PushDelta(t, t.gWait) EXCEPT !.gWait = W(0)]

Bytes(argv) == [k \in 1..Len(argv) |-> U8(argv[k])]

Event(t, ev, argv) ==
    [ProcDelta(t) EXCEPT !.gData = @ \o <<U8(BitOr(ev, t.gIndx))>> \o Bytes(argv)]

\* mNoteOn without the registration of the note: no note-off would follow
mNoteOnUnregistered(t, key, vel, time) == Event(t, 144, <<key, vel>>)

mNoteOn(t, key, vel, time) ==
    [Event(t, 144, <<key, vel>>) EXCEPT
        !.gNote = Append(@, [key |-> key, pos |-> Add32(t.gGPos, time)])]

mGenCtrl(t, ctrlType, ctrlData) == Event(t, 176, <<ctrlType, ctrlData>>)
mVol(t, vol) == Event(t, 176, <<7, vol>>)
mPan(t, pan) == Event(t, 176, <<10, pan>>)
mExp(t, exp) == Event(t, 176, <<11, exp>>)
mPrg(t, prg) == Event(t, 192, <<prg>>)

\* n = 0x2000 + bnd*16384/256 in u32: for bnd = 0xFFFFFFFF the product wraps
\* to 0xFFFFC000
mBnd(t, bnd) ==
    LET n == 8192 + (IF bnd = Ones32 THEN 16777152 ELSE (bnd * 16384) \div 256)
    IN  Event(t, 224, <<n % 128, Shr(n, 7)>>)

\* mBndRng writing the select pair every time, whatever gRPNR holds
mBndRngAlwaysSelects(t, rng) ==
    Event(Event(Event([t EXCEPT !.gRPNR = 1], 176, <<101, 0>>), 176, <<100, 0>>), 176, <<6, rng>>)

mBndRng(t, rng) ==
    LET a == IF t.gRPNR = 0
             THEN Event(Event([t EXCEPT !.gRPNR = 1], 176, <<101, 0>>), 176, <<100, 0>>)
             ELSE t
    IN  Event(a, 176, <<6, rng>>)

mRPN(t, msb, lsb, data) ==
    [Event(Event(Event(t, 176, <<101, lsb>>), 176, <<100, msb>>), 176, <<6, data>>)
        EXCEPT !.gRPNR = 0]

mNRPN(t, msb, lsb, data) ==
    [Event(Event(Event(t, 176, <<99, lsb>>), 176, <<98, msb>>), 176, <<6, data>>)
        EXCEPT !.gRPNR = 0]

\* tmp # 0 (the division traps on 0, see Case_E1)
mTmp(t, tmp) ==
    LET n == IF tmp = Ones32 THEN 0 ELSE 60000000 \div tmp
    IN  Event(t, 255, <<81, 3, Shr(n, 16), Shr(n, 8), n>>)

mMetaEvent(t, type, data) ==
    [PushDelta(Event(t, 255, <<type>>), W(Len(data))) EXCEPT !.gData = @ \o Bytes(data)]

NoteOffBytes(t, note) == <<U8(BitOr(144, t.gIndx)), U8(note.key), 0>>

\* mEndFlush without the reset of the pending wait: every note-off would
\* carry it
RECURSIVE mEndFlushKeepWait(_, _)
mEndFlushKeepWait(t, k) ==
    IF k > Len(t.gNote) THEN t
    ELSE mEndFlushKeepWait([PushDelta(t, t.gWait) EXCEPT
                                !.gData = @ \o NoteOffBytes(t, t.gNote[k])], k + 1)

RECURSIVE mEndFlush(_, _)
mEndFlush(t, k) ==
    IF k > Len(t.gNote) THEN t
    ELSE mEndFlush([PushDelta(t, t.gWait) EXCEPT
                        !.gWait = W(0),
                        !.gData = @ \o NoteOffBytes(t, t.gNote[k])], k + 1)

\* mEnd flushing the sounding list from its last note to its first
mEndBackwards(t) ==
    LET n == Len(t.gNote)
        r == [t EXCEPT !.gNote = [k \in 1..n |-> t.gNote[n + 1 - k]]]
    IN  [Event([mEndFlush(r, 1) EXCEPT !.gNote = <<>>], 255, <<47, 0>>) EXCEPT !.gStat = 0]

mEnd(t) ==
    [Event([mEndFlush(t, 1) EXCEPT !.gNote = <<>>], 255, <<47, 0>>) EXCEPT !.gStat = 0]

\* the sign of what NoteSortCmp returns: the u32 difference converted to int
NoteSortCmp(a, b) == SignS32(Sub32(a.pos, b.pos))

\* qsort: any arrangement the comparison accepts as sorted (qsort is not
\* stable); any arrangement at all when the comparison is no ordering of the
\* notes, which the int conversion causes for ticks 2^31 or more apart.
SortOutcomes(notes) ==
    LET n == Len(notes)
        Perms == {p \in [1..n -> 1..n] : \A a, b \in 1..n : a # b => p[a] # p[b]}
        Arr(p) == [k \in 1..n |-> notes[p[k]]]
        Cmp(a, b) == NoteSortCmp(notes[a], notes[b])
        Ordering ==
            /\ \A a, b \in 1..n : Cmp(a, b) = 0 - Cmp(b, a)
            /\ \A a, b, c \in 1..n : (Cmp(a, b) <= 0 /\ Cmp(b, c) <= 0) => Cmp(a, c) <= 0
        Sorted(q) == \A a, b \in 1..n : a < b => NoteSortCmp(q[a], q[b]) <= 0
    IN  IF Ordering THEN {q \in {Arr(p) : p \in Perms} : Sorted(q)}
        ELSE {Arr(p) : p \in Perms}

RECURSIVE WaitLoop(_, _, _, _)
WaitLoop(t, k, timeLeft, pPos) ==
    IF k > Len(t.gNote)
    THEN [t EXCEPT !.gGPos = Add32(@, timeLeft), !.gWait = Add32(@, timeLeft)]
    ELSE LET note == t.gNote[k]
         IN  IF Gt32(note.pos, pPos) THEN WaitLoop(t, k + 1, timeLeft, pPos)
             ELSE LET dif == Sub32(note.pos, t.gGPos)
                      t2  == [PushDelta(t, dif) EXCEPT
                                 !.gData = @ \o NoteOffBytes(t, note),
                                 !.gNote = RemoveAt(@, k),
                                 !.gGPos = Add32(@, dif)]
                  IN  WaitLoop(t2, k, Sub32(timeLeft, dif), pPos)

\* sorted: what qsort left in gNote, one of SortOutcomes(t.gNote)
Wait(t, timeLeft, sorted) ==
    WaitLoop([t EXCEPT !.gNote = sorted], 1, timeLeft, Add32(t.gGPos, timeLeft))

-----------------------------------------------------------------------------
(* One iteration of rseqDo's read loop: the label lookup, then one `case`. *)
(* c is what the iteration reads but never writes: the file, the labels    *)
(* and the two flags.  Each Case_xx takes the track as the label lookup    *)
(* left it and the file position after the command byte, and returns the   *)
(* track, the new file position and how the iteration ends.                *)

Res(t, p) ==
    [trk |-> t, pos |-> p, loop |-> TRUE, hang |-> FALSE, crash |-> FALSE, split |-> <<>>]

\* the label lookup at the head of the loop
LabelEvent(c, t, p) ==
    LET curpos == p - mdOff
    IN  IF curpos \in DOMAIN c.lb THEN mMetaEvent(t, 6, c.lb[curpos]) ELSE t

Case_Note(c, t, p, cmd) ==
    LET vel == fgetc(c.f, p)
        len == ReadVarLen(c.f, fnext(c.f, p))
    IN  IF len.hang THEN [Res(t, len.p) EXCEPT !.hang = TRUE]
        ELSE Res(mNoteOn(t, cmd, vel, len.v), len.p)

Case_80(c, t, p, sorted) ==
    LET len == ReadVarLen(c.f, p)
    IN  IF len.hang THEN [Res(t, len.p) EXCEPT !.hang = TRUE]
        ELSE Res(Wait(t, len.v, sorted), len.p)

Case_81(c, t, p) ==
    LET c0 == fgetc(c.f, p)
        p1 == fnext(c.f, p)
        c1 == IF HasBit7(c0) THEN fgetc(c.f, p1) ELSE c0
        p2 == IF HasBit7(c0) THEN fnext(c.f, p1) ELSE p1
        p3 == IF HasBit7(c1) THEN fnext(c.f, p2) ELSE p2
    IN  Res(mPrg(t, Low7(c0)), p3)

\* split: the track index and the address; the caller starts the track
Case_88(c, t, p) ==
    LET trk == ReadBE(c.f, p, 8)
        adr == ReadBE(c.f, trk.p, 24)
    IN  [Res(t, adr.p) EXCEPT !.split = <<trk.v, AddOff(adr.v, mdOff)>>]

StrJump == <<74, 117, 109, 112, 32, 40>>
StrForwards == <<102, 111, 114, 119, 97, 114, 100, 115>>
StrBackwards == <<98, 97, 99, 107, 119, 97, 114, 100, 115>>
StrIgnored == <<105, 103, 110, 111, 114, 101, 100>>
StrTaken == <<116, 97, 107, 101, 110>>
StrTrackEnd == <<84, 114, 97, 99, 107, 32, 69, 110, 100>>

\* snprintf(msgbuf, 0x20, "Jump (%s, %s)", jumpDirMsg, jumpMsg)
JumpMsg(jumpDir, ign, takeJump) ==
    LET full == StrJump \o (IF jumpDir THEN StrForwards ELSE StrBackwards) \o <<44, 32>>
                \o (IF ign THEN StrIgnored ELSE IF takeJump THEN StrTaken ELSE StrTrackEnd)
                \o <<41>>
    IN  SubSeq(full, 1, IF Len(full) < 31 THEN Len(full) ELSE 31)

\* case 0x89 comparing with >= : a jump to the byte after its own argument
\* would be taken
Case_89TakesEqual(c, t, p) ==
    LET a        == ReadBE(c.f, p, 24)
        adr      == AddOff(a.v, mdOff)
        jumpDir  == adr >= a.p
        takeJump == jumpDir
        t1       == mMetaEvent(t, 6, JumpMsg(jumpDir, c.ign, takeJump))
    IN  IF c.ign THEN Res(t1, a.p)
        ELSE IF takeJump THEN Res([t1 EXCEPT !.gDPos = adr], adr)
        ELSE [Res(mEnd(t1), a.p) EXCEPT !.loop = FALSE]

\* case 0x89 with -i leaving only the backward jumps out: a forward jump
\* would still be taken
Case_89IgnoresBackwardOnly(c, t, p) ==
    LET a        == ReadBE(c.f, p, 24)
        adr      == AddOff(a.v, mdOff)
        jumpDir  == adr > a.p
        takeJump == jumpDir
        t1       == mMetaEvent(t, 6, JumpMsg(jumpDir, c.ign, takeJump))
    IN  IF c.ign /\ ~jumpDir THEN Res(t1, a.p)
        ELSE IF takeJump THEN Res([t1 EXCEPT !.gDPos = adr], adr)
        ELSE [Res(mEnd(t1), a.p) EXCEPT !.loop = FALSE]

Case_89(c, t, p) ==
    LET a        == ReadBE(c.f, p, 24)
        adr      == AddOff(a.v, mdOff)
        jumpDir  == adr > a.p
        takeJump == jumpDir
        t1       == mMetaEvent(t, 6, JumpMsg(jumpDir, c.ign, takeJump))
    IN  IF c.ign THEN Res(t1, a.p)
        ELSE IF takeJump THEN Res([t1 EXCEPT !.gDPos = adr], adr)
        ELSE [Res(mEnd(t1), a.p) EXCEPT !.loop = FALSE]

\* case 0x8A keeping the return address of an earlier call instead of
\* overwriting it
Case_8AKeepsFirst(c, t, p) ==
    LET a   == ReadBE(c.f, p, 24)
        adr == AddOff(a.v, mdOff)
    IN  Res([t EXCEPT !.gRPos = IF @ # 0 THEN @ ELSE a.p, !.gDPos = adr], adr)

Case_8A(c, t, p) ==
    LET a   == ReadBE(c.f, p, 24)
        adr == AddOff(a.v, mdOff)
    IN  Res([t EXCEPT !.gRPos = a.p, !.gDPos = adr], adr)

\* the debug pair written without -d as well
DebugPairAlways(c, t, p, cmd) ==
    LET cdata == fgetc(c.f, p)
    IN  Res(mGenCtrl(mGenCtrl(t, 112, cmd % 128), 38, cdata), fnext(c.f, p))

\* the debug pair shared by B0, C6, C7, C8, D6 and D8..DB
DebugPair(c, t, p, cmd) ==
    LET cdata == fgetc(c.f, p)
    IN  Res(IF c.dbg THEN mGenCtrl(mGenCtrl(t, 112, cmd % 128), 38, cdata) ELSE t,
            fnext(c.f, p))

\* one argument byte handed to a controller that is written only under -d
DebugCtrl(c, t, p, ctrl) ==
    LET cdata == fgetc(c.f, p)
    IN  Res(IF c.dbg THEN mGenCtrl(t, ctrl, cdata) ELSE t, fnext(c.f, p))

\* one argument byte handed to a controller that is always written
PlainCtrl(c, t, p, ctrl) ==
    Res(mGenCtrl(t, ctrl, fgetc(c.f, p)), fnext(c.f, p))


Case_D1(c, t, p) ==
    LET cdata == fgetc(c.f, p)
    IN  Res(IF c.dbg THEN mNRPN(t, 1, 100, cdata) ELSE t, fnext(c.f, p))


Case_E0(c, t, p) ==
    LET a     == ReadBE(c.f, p, 16)
        cdata == IF a.v = Ones32 THEN Half - 1 ELSE a.v
    IN  Res(IF c.dbg THEN mGenCtrl(t, 16, cdata % 128) ELSE t, a.p)

\* 60000000 / 0 traps: the process dies
Case_E1(c, t, p) ==
    LET a == ReadBE(c.f, p, 16)
    IN  IF a.v = 0 THEN [Res(t, a.p) EXCEPT !.crash = TRUE]
        ELSE Res(mTmp(t, a.v), a.p)

\* E3 and FE: a 16-bit argument, the command itself as a controller under -d
DebugWord(c, t, p, cmd) ==
    LET a == ReadBE(c.f, p, 16)
    IN  Res(IF c.dbg THEN mGenCtrl(t, 112, cmd % 128) ELSE t, a.p)


Case_FD(c, t, p) ==
    IF t.gRPos # 0 THEN Res([t EXCEPT !.gDPos = t.gRPos, !.gRPos = 0], t.gRPos)
    ELSE Res(t, p)

Case_FF(c, t, p) == [Res(mEnd(t), p) EXCEPT !.loop = FALSE]
Case_Default(c, t, p) == Res(t, p)

\* the commands the switch has a case for
KnownCmds ==
    {128, 129, 136, 137, 138, 176} \cup (192..211) \cup {212, 213, 214}
    \cup (216..219) \cup {224, 225, 227, 252, 253, 254, 255}

-----------------------------------------------------------------------------
(* Container assembly *)

BE16(x) == <<Shr(x, 8) % 256, x % 256>>
BE24(x) == <<Shr(x, 16) % 256, Shr(x, 8) % 256, x % 256>>
BE32(x) == <<Shr(x, 24) % 256, Shr(x, 16) % 256, Shr(x, 8) % 256, x % 256>>

\* Swap32(0x4D546864), Swap32(6), Swap16(1), Swap16(trkMax), Swap16(96)
MidiHeader(trkMax) ==
    BE32(1297377380) \o BE32(6) \o BE16(1) \o BE16(trkMax % 65536) \o BE16(96)

\* Swap32(0x4D54726B), Swap32(len), then the track's data
MidiTrack(data) == BE32(1297379947) \o BE32(Len(data)) \o data

\* the loop over the tracks that have data, from track k on
\* the tracks written from the highest index down
RECURSIVE MidiTracksDescending(_, _)
MidiTracksDescending(g, k) ==
    IF k >= NumTracks THEN <<>>
    ELSE MidiTracksDescending(g, k + 1)
         \o (IF g[k].gData # <<>> THEN MidiTrack(g[k].gData) ELSE <<>>)

RECURSIVE MidiTracks(_, _)
MidiTracks(g, k) ==
    IF k >= NumTracks THEN <<>>
    ELSE (IF Len(g[k].gData) = 0 THEN <<>> ELSE MidiTrack(g[k].gData)) \o MidiTracks(g, k + 1)

TrkMax(g) == Cardinality({k \in 0..(NumTracks - 1) : Len(g[k].gData) # 0})

MidiFile(g) == MidiHeader(TrkMax(g)) \o MidiTracks(g, 0)

-----------------------------------------------------------------------------
(* rseqDo *)

Ctx == [f |-> prog, lb |-> gLabels, ign |-> ignoreJumps, dbg |-> debugCtrls]

\* the read loop stands before the label lookup of track iTrk
Decoding == pc = "loop"

\* the command byte; EOF, which the code keeps as 0xFFFFFFFF, is no case
\* of the switch and no note
Cmd == fgetc(prog, fpos)

\* the track after the label lookup, and the position after the command byte
CurTrk == LabelEvent(Ctx, gTrack[iTrk], fpos)
CurPos == fnext(prog, fpos)

\* the tracks with index k or more that are on
ActiveFrom(k) == {j \in k..(NumTracks - 1) : gTrack[j].gStat # 0}

\* the scheduler entering the highest track that is on instead of the lowest
Greatest(S) == CHOOSE x \in S : \A y \in S : x >= y

Least(S) == CHOOSE x \in S : \A y \in S : x <= y

Apply(r) ==
    /\ pc' = IF r.crash THEN "crash" ELSE IF r.hang THEN "spin"
             ELSE IF r.loop THEN "loop" ELSE "for"
    /\ iTrk' = IF r.crash \/ r.hang \/ r.loop THEN iTrk ELSE iTrk + 1
    /\ fpos' = r.pos
    /\ gTrack' = [gTrack EXCEPT ![iTrk] = r.trk]
    /\ UNCHANGED <<prog, gLabels, ignoreJumps, debugCtrls, gTrkCnt, midi>>

Keep == UNCHANGED nCalls

\* gData.gTrack[0].Start(mdOff); bool gTrkCnt = true
Begin ==
    /\ pc = "start"
    /\ gTrack' = [gTrack EXCEPT ![0] = Start(@, mdOff)]
    /\ gTrkCnt' = TRUE
    /\ pc' = "while"
    /\ UNCHANGED <<prog, gLabels, ignoreJumps, debugCtrls, fpos, iTrk, midi, nCalls>>

\* while(gTrkCnt) { gTrkCnt = false; for(i = 0; ...
WhileEnter ==
    /\ pc = "while"
    /\ gTrkCnt
    /\ gTrkCnt' = FALSE
    /\ iTrk' = 0
    /\ pc' = "for"
    /\ UNCHANGED <<prog, gLabels, ignoreJumps, debugCtrls, gTrack, fpos, midi, nCalls>>

\* the for loop passes the tracks that are off and enters the next one on
TrackEnter ==
    /\ pc = "for"
    /\ ActiveFrom(iTrk) # {}
    /\ iTrk' = Least(ActiveFrom(iTrk))
    /\ gTrkCnt' = TRUE
    /\ fpos' = gTrack[iTrk'].gDPos
    /\ pc' = "loop"
    /\ UNCHANGED <<prog, gLabels, ignoreJumps, debugCtrls, gTrack, midi, nCalls>>

\* the for loop passes the tracks that are off and ends
ForExit ==
    /\ pc = "for"
    /\ ActiveFrom(iTrk) = {}
    /\ iTrk' = NumTracks
    /\ pc' = "while"
    /\ UNCHANGED <<prog, gLabels, ignoreJumps, debugCtrls, gTrack, fpos, gTrkCnt, midi, nCalls>>

\* the while loop ends; the header and the tracks are written
WriteMidi ==
    /\ pc = "while"
    /\ ~gTrkCnt
    /\ midi' = MidiFile(gTrack)
    /\ pc' = "done"
    /\ UNCHANGED <<prog, gLabels, ignoreJumps, debugCtrls, gTrack, fpos, iTrk, gTrkCnt, nCalls>>

Cmd_Note == Decoding /\ Cmd \in 0..127 /\ Apply(Case_Note(Ctx, CurTrk, CurPos, Cmd)) /\ Keep

Cmd_80 ==
    /\ Decoding
    /\ Cmd = 128
    /\ \E sorted \in SortOutcomes(CurTrk.gNote) : Apply(Case_80(Ctx, CurTrk, CurPos, sorted))
    /\ Keep

\* what a write through gTrack[trk] with trk >= 16 can leave behind: the
\* process dies, or it goes on with the label map (the member that follows
\* gTrack in gData) intact or lost
SplitOutside == {"crash", "labels kept", "labels lost"}

Cmd_88 ==
    /\ Decoding
    /\ Cmd = 136
    /\ LET r   == Case_88(Ctx, CurTrk, CurPos)
           trk == r.split[1]
           adr == r.split[2]
           g1  == [gTrack EXCEPT ![iTrk] = r.trk]
       IN  IF trk \in 0..(NumTracks - 1)
           THEN /\ gTrack' = [g1 EXCEPT ![trk] = Start(@, adr)]
                /\ fpos' = r.pos
                /\ UNCHANGED <<pc, gLabels>>
           ELSE \E out \in SplitOutside :
                /\ gTrack' = g1
                /\ fpos' = r.pos
                /\ pc' = IF out = "crash" THEN "crash" ELSE pc
                /\ gLabels' = IF out = "labels lost" THEN <<>> ELSE gLabels
    /\ UNCHANGED <<prog, ignoreJumps, debugCtrls, iTrk, gTrkCnt, midi, nCalls>>

Cmd_81 == Decoding /\ Cmd = 129 /\ Apply(Case_81(Ctx, CurTrk, CurPos)) /\ Keep
Cmd_89 == Decoding /\ Cmd = 137 /\ Apply(Case_89(Ctx, CurTrk, CurPos)) /\ Keep
Cmd_8A ==
    /\ Decoding
    /\ Cmd = 138
    /\ nCalls < MaxCalls
    /\ nCalls' = nCalls + 1
    /\ Apply(Case_8A(Ctx, CurTrk, CurPos))
Cmd_B0 == Decoding /\ Cmd = 176 /\ Apply(DebugPair(Ctx, CurTrk, CurPos, 176)) /\ Keep
Cmd_C0 == Decoding /\ Cmd = 192 /\ Apply(Res(mPan(CurTrk, fgetc(prog, CurPos)), fnext(prog, CurPos))) /\ Keep
Cmd_C1 == Decoding /\ Cmd = 193 /\ Apply(Res(mVol(CurTrk, fgetc(prog, CurPos)), fnext(prog, CurPos))) /\ Keep
Cmd_C2 == Decoding /\ Cmd = 194 /\ Apply(PlainCtrl(Ctx, CurTrk, CurPos, 39)) /\ Keep
Cmd_C3 == Decoding /\ Cmd = 195 /\ Apply(Res(mNRPN(CurTrk, 0, 2, fgetc(prog, CurPos)), fnext(prog, CurPos))) /\ Keep
Cmd_C4 == Decoding /\ Cmd = 196 /\ Apply(Res(mBnd(CurTrk, fgetc(prog, CurPos)), fnext(prog, CurPos))) /\ Keep
Cmd_C5 == Decoding /\ Cmd = 197 /\ Apply(Res(mBndRng(CurTrk, fgetc(prog, CurPos)), fnext(prog, CurPos))) /\ Keep
Cmd_C6 == Decoding /\ Cmd = 198 /\ Apply(DebugPair(Ctx, CurTrk, CurPos, 198)) /\ Keep
Cmd_C7 == Decoding /\ Cmd = 199 /\ Apply(DebugPair(Ctx, CurTrk, CurPos, 199)) /\ Keep
Cmd_C8 == Decoding /\ Cmd = 200 /\ Apply(DebugPair(Ctx, CurTrk, CurPos, 200)) /\ Keep
Cmd_C9 == Decoding /\ Cmd = 201 /\ Apply(PlainCtrl(Ctx, CurTrk, CurPos, 84)) /\ Keep
Cmd_CA == Decoding /\ Cmd = 202 /\ Apply(PlainCtrl(Ctx, CurTrk, CurPos, 1)) /\ Keep
Cmd_CB == Decoding /\ Cmd = 203 /\ Apply(DebugCtrl(Ctx, CurTrk, CurPos, 17)) /\ Keep
Cmd_CC == Decoding /\ Cmd = 204 /\ Apply(DebugCtrl(Ctx, CurTrk, CurPos, 33)) /\ Keep
Cmd_CD == Decoding /\ Cmd = 205 /\ Apply(DebugCtrl(Ctx, CurTrk, CurPos, 18)) /\ Keep
Cmd_CE == Decoding /\ Cmd = 206 /\ Apply(PlainCtrl(Ctx, CurTrk, CurPos, 65)) /\ Keep
Cmd_CF == Decoding /\ Cmd = 207 /\ Apply(PlainCtrl(Ctx, CurTrk, CurPos, 5)) /\ Keep
Cmd_D0 == Decoding /\ Cmd = 208 /\ Apply(DebugCtrl(Ctx, CurTrk, CurPos, 73)) /\ Keep
Cmd_D1 == Decoding /\ Cmd = 209 /\ Apply(Case_D1(Ctx, CurTrk, CurPos)) /\ Keep
Cmd_D2 == Decoding /\ Cmd = 210 /\ Apply(DebugCtrl(Ctx, CurTrk, CurPos, 91)) /\ Keep
Cmd_D3 == Decoding /\ Cmd = 211 /\ Apply(DebugCtrl(Ctx, CurTrk, CurPos, 72)) /\ Keep
Cmd_D4 == Decoding /\ Cmd = 212 /\ Apply(Res(mGenCtrl(CurTrk, 111, 0), CurPos)) /\ Keep
Cmd_D5 == Decoding /\ Cmd = 213 /\ Apply(Res(mExp(CurTrk, fgetc(prog, CurPos)), fnext(prog, CurPos))) /\ Keep
Cmd_D6 == Decoding /\ Cmd = 214 /\ Apply(DebugPair(Ctx, CurTrk, CurPos, 214)) /\ Keep
Cmd_E0 == Decoding /\ Cmd = 224 /\ Apply(Case_E0(Ctx, CurTrk, CurPos)) /\ Keep
Cmd_E1 == Decoding /\ Cmd = 225 /\ Apply(Case_E1(Ctx, CurTrk, CurPos)) /\ Keep
Cmd_E3 == Decoding /\ Cmd = 227 /\ Apply(DebugWord(Ctx, CurTrk, CurPos, 227)) /\ Keep
Cmd_FC == Decoding /\ Cmd = 252 /\ Apply(Res(mGenCtrl(CurTrk, 111, 1), CurPos)) /\ Keep
Cmd_FD == Decoding /\ Cmd = 253 /\ Apply(Case_FD(Ctx, CurTrk, CurPos)) /\ Keep
Cmd_FE == Decoding /\ Cmd = 254 /\ Apply(DebugWord(Ctx, CurTrk, CurPos, 254)) /\ Keep
Cmd_FF == Decoding /\ Cmd = 255 /\ Apply(Case_FF(Ctx, CurTrk, CurPos)) /\ Keep
Cmd_D8 == Decoding /\ Cmd \in 216..219 /\ Apply(DebugPair(Ctx, CurTrk, CurPos, Cmd)) /\ Keep
Cmd_Default == Decoding /\ Cmd \notin 0..127 /\ Cmd \notin KnownCmds /\ Apply(Case_Default(Ctx, CurTrk, CurPos)) /\ Keep

Next ==
    \/ Begin
    \/ WhileEnter
    \/ TrackEnter
    \/ ForExit
    \/ WriteMidi
    \/ Cmd_Note
    \/ Cmd_80
    \/ Cmd_81
    \/ Cmd_88
    \/ Cmd_89
    \/ Cmd_8A
    \/ Cmd_B0
    \/ Cmd_C0
    \/ Cmd_C1
    \/ Cmd_C2
    \/ Cmd_C3
    \/ Cmd_C4
    \/ Cmd_C5
    \/ Cmd_C6
    \/ Cmd_C7
    \/ Cmd_C8
    \/ Cmd_C9
    \/ Cmd_CA
    \/ Cmd_CB
    \/ Cmd_CC
    \/ Cmd_CD
    \/ Cmd_CE
    \/ Cmd_CF
    \/ Cmd_D0
    \/ Cmd_D1
    \/ Cmd_D2
    \/ Cmd_D3
    \/ Cmd_D4
    \/ Cmd_D5
    \/ Cmd_D6
    \/ Cmd_D8
    \/ Cmd_E0
    \/ Cmd_E1
    \/ Cmd_E3
    \/ Cmd_FC
    \/ Cmd_FD
    \/ Cmd_FE
    \/ Cmd_FF
    \/ Cmd_Default

-----------------------------------------------------------------------------
(* The inputs: RSEQ byte code built from commands, the label table and the *)
(* two command-line flags.  A jump, call or split names the command it     *)
(* targets by its index in the file; the encoder turns that into the       *)
(* 3-byte offset.                                                          *)

RECURSIVE Flat(_)
Flat(ss) == IF Len(ss) = 0 THEN <<>> ELSE Head(ss) \o Flat(Tail(ss))

SeqsUpTo(A, n) == UNION {[1..m -> A] : m \in 0..n}

INote(key, vel, dur) == <<key, vel>> \o DeltaBytes(W(dur))
IWait(n) == <<128>> \o DeltaBytes(W(n))
IEnd == <<255>>
NoteA == INote(60, 100, 96)
NoteB == INote(62, 80, 2)

Raw(b) == [k |-> "raw", b |-> b]
Split(trk, j) == [k |-> "split", trk |-> trk, j |-> j]
Jump(j) == [k |-> "jump", j |-> j]
Call(j) == [k |-> "call", j |-> j]

Width(ins) ==
    IF ins.k = "raw" THEN Len(ins.b) ELSE IF ins.k = "split" THEN 5 ELSE 4

\* the offset of command j (counted from 0) of the command list cs
RECURSIVE OffsetOf(_, _)
OffsetOf(cs, j) ==
    IF j = 0 \/ Len(cs) = 0 THEN 0 ELSE Width(Head(cs)) + OffsetOf(Tail(cs), j - 1)

Enc(ins, cs) ==
    IF ins.k = "raw" THEN ins.b
    ELSE IF ins.k = "split" THEN <<136, ins.trk>> \o BE24(OffsetOf(cs, ins.j))
    ELSE IF ins.k = "jump" THEN <<137>> \o BE24(OffsetOf(cs, ins.j))
    ELSE <<138>> \o BE24(OffsetOf(cs, ins.j))

Encode(cs) == Flat([n \in 1..Len(cs) |-> Enc(cs[n], cs)])

Session(f, lb, ign, dbg) == [prog |-> f, lb |-> lb, ign |-> ign, dbg |-> dbg]

NoLabels == <<>>

\* notes and waits (one of 2^32 - 1 ticks) on one track
IWaitMax == <<128>> \o DeltaBytes(WOnes)
NoteAlpha == {NoteA, NoteB, IWait(1), IWaitMax, IEnd}
NoteSessions ==
    {Session(Flat(s), NoLabels, FALSE, FALSE) : s \in SeqsUpTo(NoteAlpha, NoteMaxLen)}

\* tracks started by split, from below and from above, and started again
SplitAlpha == {Split(0, 1), Split(1, 1), Split(2, 2), Raw(IWait(1)), Raw(IEnd)}
SplitSessions ==
    {Session(Encode(s), NoLabels, FALSE, FALSE) : s \in SeqsUpTo(SplitAlpha, SplitMaxLen)}

\* jumps, calls and returns, with and without -i
FlowAlpha ==
    {Jump(0), Jump(2), Call(1), Call(2), Raw(<<253>>), Raw(NoteB), Raw(IEnd)}
FlowSessions ==
    {Session(Encode(s), NoLabels, ign, FALSE) : s \in SeqsUpTo(FlowAlpha, FlowMaxLen), ign \in BOOLEAN}

\* P; jump to T; skipped bytes; T: Q; end
InlineAlpha == {NoteB, IWait(1)}
InlineSkipped == {NoteA, IEnd}
JumpOver(P, K, Q) == P \o <<137>> \o BE24(Len(P) + 4 + Len(K)) \o K \o Q \o IEnd
Inlined(P, Q) == P \o Q \o IEnd
InlineParts == {Flat(s) : s \in SeqsUpTo(InlineAlpha, InlineMaxLen)}
InlineSessions ==
    {Session(JumpOver(P, K, Q), NoLabels, FALSE, FALSE) : P \in InlineParts, K \in InlineSkipped, Q \in InlineParts}
    \cup {Session(Inlined(P, Q), NoLabels, FALSE, FALSE) : P \in InlineParts, Q \in InlineParts}

\* every command of the switch once, with and without -d
CtlAlpha ==
    {<<op, 64>> : op \in {176} \cup (192..211) \cup {213, 214} \cup (216..219)}
    \cup {<<op, 200>> : op \in {192, 196, 197}}
    \cup {<<212>>, <<252>>, <<253>>, <<224, 1, 2>>, <<225, 0, 120>>, <<225, 0, 0>>,
          <<227, 1, 2>>, <<254, 0, 3>>, <<129, 5>>, <<129, 133, 1>>, <<129, 133, 129, 0>>}
RpnAlpha == {<<197, 2>>, <<195, 3>>, <<209, 4>>, NoteB}
\* tempo commands: the smallest arguments, 120, and the largest
TempoArgs == {1, 2, 3, 4, 120, 256, 65535}
TempoAlpha == {<<225>> \o BE16(r) : r \in TempoArgs}
\* commands -d decides about, decoded with a note sounding and a wait pending
QuietAlpha == {<<194, 64>>, <<198, 64>>, <<208, 64>>, <<227, 1, 2>>}
CtlSessions ==
    {Session(a \o IEnd, NoLabels, FALSE, dbg) : a \in CtlAlpha \cup TempoAlpha, dbg \in BOOLEAN}
    \cup {Session(a \o b \o IEnd, NoLabels, FALSE, dbg) : a \in RpnAlpha, b \in RpnAlpha, dbg \in BOOLEAN}
    \cup {Session(NoteB \o IWait(1) \o a \o IEnd, NoLabels, FALSE, dbg) : a \in QuietAlpha, dbg \in BOOLEAN}
    \cup {Session(<<197, 2, 136, 0, 0, 0, 0>> \o a \o IEnd, NoLabels, FALSE, FALSE) : a \in RpnAlpha}

\* commands the switch has no case for, files that end inside a command or
\* without an end command, and splits naming a track past the sixteenth
ErrAlpha == {<<130>>, <<177>>, IWait(1)}
ErrTails ==
    {<<>>, <<60>>, <<60, 100>>, <<60, 100, 129>>, <<128>>, <<128, 129>>, <<129>>, <<192>>,
     <<136>>, <<136, 1>>, <<136, 1, 0>>, <<137>>, <<137, 0, 0>>, <<138>>, <<225>>, <<225, 0>>,
     <<136, 16, 0, 0, 0>>, <<136, 255, 0, 0, 1>>}
ErrSessions ==
    {Session(Flat(s) \o t, NoLabels, FALSE, FALSE) : s \in SeqsUpTo(ErrAlpha, ErrMaxLen), t \in ErrTails}

\* label tables over short files that end with an end command
LabelTables == {(0 :> <<76>>), (0 :> <<76>>) @@ (3 :> <<77, 78>>), (2 :> <<>>)}
LabelAlpha == {Raw(NoteB), Raw(IWait(1)), Jump(0), Jump(2)}
LabelSessions ==
    {Session(Encode(s) \o IEnd, lb, ign, FALSE) : s \in SeqsUpTo(LabelAlpha, 2), lb \in LabelTables, ign \in BOOLEAN}
    \cup {Session(<<136, 16, 0, 0, 5>> \o IEnd, lb, FALSE, FALSE) : lb \in LabelTables}

Sessions ==
    NoteSessions \cup SplitSessions \cup FlowSessions \cup InlineSessions
    \cup CtlSessions \cup ErrSessions \cup LabelSessions

\* the state rseqProc leaves: gData.Reset() has run and the chunks are read
Init ==
    /\ \E s \in Sessions :
        /\ prog = s.prog
        /\ gLabels = s.lb
        /\ ignoreJumps = s.ign
        /\ debugCtrls = s.dbg
    /\ gTrack = [k \in 0..(NumTracks - 1) |-> Reset(k)]
    /\ fpos = FileEnd(prog)
    /\ pc = "start"
    /\ iTrk = 0
    /\ gTrkCnt = FALSE
    /\ midi = <<>>
    /\ nCalls = 0

Spec == Init /\ [][Next]_vars

-----------------------------------------------------------------------------
(* Reading back what was written: the events of a track buffer and the     *)
(* chunks of the output file.                                              *)

\* a variable-length quantity at index i of d: its value and the index after
RECURSIVE VarFrom(_, _, _)
VarFrom(d, i, t) ==
    LET t2 == Shl7Or(t, d[i] % 128)
    IN  IF d[i] < 128 THEN [v |-> t2, n |-> i + 1] ELSE VarFrom(d, i + 1, t2)

\* the events of d from index i on: the delta time, the status byte and the
\* data bytes; for a meta event the data are its type and its payload
RECURSIVE EventsFrom(_, _)
EventsFrom(d, i) ==
    IF i > Len(d) THEN <<>>
    ELSE LET dv == VarFrom(d, i, W(0))
             st == d[dv.n]
         IN  IF st = 255
             THEN LET ln == VarFrom(d, dv.n + 2, W(0))
                      e  == ln.n + ln.v.l
                  IN  <<[delta |-> dv.v, st |-> st,
                         data |-> <<d[dv.n + 1]>> \o SubSeq(d, ln.n, e - 1)]>>
                      \o EventsFrom(d, e)
             ELSE LET k == IF st \div 16 \in {12, 13} THEN 1 ELSE 2
                  IN  <<[delta |-> dv.v, st |-> st, data |-> SubSeq(d, dv.n + 1, dv.n + k)]>>
                      \o EventsFrom(d, dv.n + k + 1)

Events(d) == EventsFrom(d, 1)

Ev(delta, st, data) == [delta |-> W(delta), st |-> st, data |-> data]

\* a sum of ticks that does not wrap: the high half grows past 16 bits
WideAdd(a, b) == [h |-> a.h + b.h + (a.l + b.l) \div Half, l |-> (a.l + b.l) % Half]

\* the absolute tick of event k of ev: the sum of the delta times up to it
RECURSIVE TickOf(_, _)
TickOf(ev, k) == IF k = 0 THEN W(0) ELSE WideAdd(TickOf(ev, k - 1), ev[k].delta)

SumDeltas(d) == TickOf(Events(d), Len(Events(d)))

\* the track count the header of the file m declares
HeaderCount(m) == m[11] * 256 + m[12]

\* the chunks after the header: the tag and the data of each
RECURSIVE ChunksFrom(_, _)
ChunksFrom(m, i) ==
    IF i > Len(m) THEN <<>>
    ELSE LET n == ((m[i + 4] * 256 + m[i + 5]) * 256 + m[i + 6]) * 256 + m[i + 7]
         IN  <<[tag |-> SubSeq(m, i, i + 3), data |-> SubSeq(m, i + 8, i + 7 + n)]>>
             \o ChunksFrom(m, i + 8 + n)

Chunks(m) == ChunksFrom(m, 15)

TagMTrk == <<77, 84, 114, 107>>

\* the note-off of track idx for a key, whatever its delta time
IsNoteOff(e, idx) == e.st = 144 + idx /\ Len(e.data) = 2 /\ e.data[2] = 0
IsEndOfTrack(e) == e.st = 255 /\ e.data = <<47>>
IsText(e) == e.st = 255 /\ Len(e.data) >= 1 /\ e.data[1] = 6

\* the events a step of track iTrk appends to its buffer
OldEvents == Events(gTrack[iTrk].gData)
NewEvents == Events(gTrack'[iTrk].gData)
Appended == SubSeq(NewEvents, Len(OldEvents) + 1, Len(NewEvents))

-----------------------------------------------------------------------------
(* The minimal file: one note and the end command.                         *)

MinimalProg == NoteA \o IEnd

MinimalDone == pc = "done" /\ prog = MinimalProg /\ gLabels = NoLabels

\* C1 (as the program behaves): for the file of one note-on (key 60,
\* velocity 100, duration 96) followed by the end command, with no labels,
\* the output declares one track and holds one track chunk whose events are
\* delta 0 note-on(60,100), delta 0 note-off(60,0), delta 0 end-of-track:
\* no wait command runs, so the end command flushes the note at once.
C1_MinimalOutput ==
    MinimalDone =>
        /\ HeaderCount(midi) = 1
        /\ Len(Chunks(midi)) = 1
        /\ Chunks(midi)[1].tag = TagMTrk
        /\ Events(Chunks(midi)[1].data)
             = <<Ev(0, 144, <<60, 100>>), Ev(0, 144, <<60, 0>>), Ev(0, 255, <<47>>)>>

C1_Witness == MinimalDone /\ Len(Chunks(midi)) = 1 /\ Len(Events(Chunks(midi)[1].data)) = 3

\* C1 as stated: the same file gives delta 0 note-on(60,100), delta 96
\* note-off(60,0), delta 0 end-of-track, in one track, the header declaring 1.
C1_AsStated ==
    MinimalDone =>
        /\ HeaderCount(midi) = 1
        /\ Len(Chunks(midi)) = 1
        /\ Events(Chunks(midi)[1].data)
             = <<Ev(0, 144, <<60, 100>>), Ev(96, 144, <<60, 0>>), Ev(0, 255, <<47>>)>>

-----------------------------------------------------------------------------
(* The note scheduler: Wait and mEnd.                                      *)

\* this step runs a wait command to its end
WaitStep == Decoding /\ Cmd = 128 /\ pc' = "loop"

\* C2 as stated: every note-off a wait appends to the buffer stands at the
\* end tick of a note that was sounding and is no longer: the sum of the
\* delta times of the buffer up to and including the note-off equals the
\* tick the note was registered with (the local time at its note-on plus
\* its duration).  Several waits in a row are a case of it.
C2_NoteOffAtEndTick ==
    [][WaitStep =>
        \A k \in (Len(OldEvents) + 1)..Len(NewEvents) :
            IsNoteOff(NewEvents[k], iTrk) =>
                \E n \in 1..Len(CurTrk.gNote) :
                    /\ CurTrk.gNote[n].key = NewEvents[k].data[1]
                    /\ CurTrk.gNote[n].pos = TickOf(NewEvents, k)]_vars

\* C3 as stated: in every reachable state, for every track, the sum of the
\* delta times encoded in its buffer plus the pending wait equals its local
\* time; so at the moment a track ends the sum of its delta times is its
\* local time.
C3_DeltasSumToLocalTime ==
    \A k \in 0..(NumTracks - 1) :
        WideAdd(SumDeltas(gTrack[k].gData), gTrack[k].gWait) = gTrack[k].gGPos

\* this step ends track iTrk: it runs the end command or a jump that is not
\* taken
EndStep == Decoding /\ Cmd \in {137, 255} /\ gTrack'[iTrk].gStat = 0

\* the track as mEnd finds it: after the label lookup, and for a jump after
\* the jump's own text event
BeforeEnd ==
    IF Cmd = 255 THEN CurTrk
    ELSE mMetaEvent(CurTrk, 6, JumpMsg(FALSE, ignoreJumps, FALSE))

\* the events mEnd appends in an EndStep
Flushed == SubSeq(NewEvents, Len(Events(BeforeEnd.gData)) + 1, Len(NewEvents))

KeyCount(keys, key) == Cardinality({k \in DOMAIN keys : keys[k] = key})

SoundingKeys == [k \in 1..Len(BeforeEnd.gNote) |-> BeforeEnd.gNote[k].key]

\* C4: mEnd, in any reachable track state with n notes still sounding,
\* appends exactly n note-offs, one for each sounding note, then exactly one
\* end-of-track event; the first event appended carries the pending wait as
\* its delta time and the others carry 0; afterwards no note is sounding,
\* the pending wait is 0 and the track is off.
C4_EndFlushesEveryNote ==
    [][EndStep =>
        LET n == Len(BeforeEnd.gNote)
        IN  /\ SubSeq(NewEvents, 1, Len(NewEvents) - Len(Flushed)) = Events(BeforeEnd.gData)
            /\ Len(Flushed) = n + 1
            /\ \A k \in 1..n : IsNoteOff(Flushed[k], iTrk)
            /\ \A key \in 0..127 :
                   KeyCount([k \in 1..n |-> Flushed[k].data[1]], key) = KeyCount(SoundingKeys, key)
            /\ IsEndOfTrack(Flushed[n + 1])
            /\ Flushed[1].delta = BeforeEnd.gWait
            /\ \A k \in 2..(n + 1) : Flushed[k].delta = W(0)
            /\ gTrack'[iTrk].gNote = <<>>
            /\ gTrack'[iTrk].gWait = W(0)
            /\ gTrack'[iTrk].gStat = 0]_vars

\* two notes and a wait that ends neither, then the end command: the flush
\* of two notes with a pending wait has happened
C4_Witness ==
    /\ prog = NoteA \o NoteB \o IWait(1) \o IEnd
    /\ gTrack[0].gStat = 0
    /\ Len(Events(gTrack[0].gData)) = 5
    /\ Events(gTrack[0].gData)[3].delta = W(1)

-----------------------------------------------------------------------------
(* Track states.  A track is Running while gStat is set.  A track that is  *)
(* off has ended if its buffer holds events (mEnd always leaves the        *)
(* end-of-track event) and is inert, never started, if the buffer is empty.*)

Running(k) == gTrack[k].gStat # 0
Ended(k) == gTrack[k].gStat = 0 /\ gTrack[k].gData # <<>>
Inert(k) == gTrack[k].gStat = 0 /\ gTrack[k].gData = <<>>

Tracks == 0..(NumTracks - 1)

\* C6 as stated: a track that has ended never runs again and its buffer
\* never changes afterwards, whatever the other tracks execute, splits
\* naming it included.
C6_EndedIsFinal ==
    [][\A k \in Tracks :
          Ended(k) => gTrack'[k].gStat = 0 /\ gTrack'[k].gData = gTrack[k].gData]_vars

\* this step runs a split naming a track of the table
SplitStep == Decoding /\ Cmd = 136 /\ ReadBE(prog, CurPos, 8).v \in Tracks
SplitTrk == ReadBE(prog, CurPos, 8).v
SplitAdr == AddOff(ReadBE(prog, fnext(prog, CurPos), 24).v, mdOff)

\* the buffers of the tracks that hold events, by ascending track index
RECURSIVE BuffersFrom(_)
BuffersFrom(k) ==
    IF k \notin Tracks THEN <<>>
    ELSE (IF gTrack[k].gData # <<>> THEN <<gTrack[k].gData>> ELSE <<>>) \o BuffersFrom(k + 1)

\* the output holds one MTrk chunk for each track with events, in ascending
\* track index, and the header counts them
ChunksByIndex ==
    /\ HeaderCount(midi) = Cardinality({k \in Tracks : gTrack[k].gData # <<>>})
    /\ Len(Chunks(midi)) = Len(BuffersFrom(0))
    /\ \A n \in 1..Len(Chunks(midi)) :
          Chunks(midi)[n].tag = TagMTrk /\ Chunks(midi)[n].data = BuffersFrom(0)[n]

\* C7: a split naming track k while k is inert makes k run at the given
\* offset; and in the output the chunk of every track that emitted an event
\* stands after the chunks of the lower tracks and before those of the
\* higher ones, whichever track started it and in whichever pass, the
\* header's track count being the number of tracks with events.
C7_SplitStartsAndOrders ==
    [][/\ (SplitStep /\ Inert(SplitTrk)) =>
              gTrack'[SplitTrk].gStat = 1 /\ gTrack'[SplitTrk].gDPos = SplitAdr
       /\ (pc' = "done") => ChunksByIndex']_vars

\* track 0 starts track 2, which in a later pass starts track 1; all three
\* end and the file is written
C7_Witness ==
    /\ pc = "done"
    /\ prog = Encode(<<Split(2, 2), Raw(IEnd), Split(1, 1), Raw(IEnd)>>)
    /\ Len(Chunks(midi)) = 3
    /\ \A k \in 0..2 : Ended(k)

-----------------------------------------------------------------------------
(* Faults.                                                                 *)

\* the command byte is a byte of the file that the switch has no case for
UnknownCmd == Decoding /\ Cmd \in 128..255 /\ Cmd \notin KnownCmds

\* C9 as stated: a running track that decodes a command byte the switch has
\* no case for (0x82, 0xB1) ends there, consuming no byte after it, and the
\* scheduler goes on to the other tracks.
C9_UnknownCmdEndsTrack ==
    [][UnknownCmd =>
          /\ gTrack'[iTrk].gStat = 0
          /\ fpos' = CurPos
          /\ pc' = "for"]_vars

\* the read loop of a running track stands at the end of the file: the next
\* read, of a command or inside one, returns EOF
AtEndOfStream == pc \in {"loop", "spin"} /\ fgetc(prog, fpos) = EOF

\* C10 as stated: when a running track's reads hit the end of the stream the
\* track ends, the scheduler goes on and the pass reaches the writing of
\* the file: the run is never left without a step that changes the state.
C10_ReadFaultEndsTrack == AtEndOfStream => ENABLED <<Next>>_vars

-----------------------------------------------------------------------------
(* A forward jump against the same commands inlined.                       *)

\* the read loop of one track run from position p to the end of the track,
\* for files of notes, waits, jumps and end commands: the tracks it
\* can leave (one for each outcome of the sorts; none if it never ends)
RECURSIVE RunFrom(_, _, _)
RunFrom(c, t, p) ==
    LET cmd == fgetc(c.f, p)
        t1  == LabelEvent(c, t, p)
        p1  == fnext(c.f, p)
        rs  == IF cmd \in 0..127 THEN {Case_Note(c, t1, p1, cmd)}
               ELSE IF cmd = 128
               THEN {Case_80(c, t1, p1, sorted) : sorted \in SortOutcomes(t1.gNote)}
               ELSE IF cmd = 137 THEN {Case_89(c, t1, p1)}
               ELSE IF cmd = 255 THEN {Case_FF(c, t1, p1)}
               ELSE {}
    IN  UNION {IF r.hang THEN {} ELSE IF r.loop THEN RunFrom(c, r.trk, r.pos) ELSE {r.trk} :
               r \in rs}

\* the entry track of the file f run alone, without labels and without -i
RunAlone(f) ==
    RunFrom([f |-> f, lb |-> NoLabels, ign |-> FALSE, dbg |-> FALSE],
            Start(Reset(0), mdOff), mdOff)

NotText(e) == ~IsText(e)

\* the events of a buffer other than text events, each with its absolute tick
Timed(d) ==
    LET ev == Events(d)
    IN  SelectSeq([k \in 1..Len(ev) |->
                      [tick |-> TickOf(ev, k), st |-> ev[k].st, data |-> ev[k].data]],
                  NotText)

\* C8 as stated: without -i, a track of commands P, a forward jump to T,
\* skipped bytes, and at T commands Q that end the track gives the output
\* of the track P; Q: the jump adds a text event and nothing else, and every
\* other event has the same bytes and the same absolute tick in both.
C8_JumpEqualsInline ==
    (pc = "done" /\ ~ignoreJumps /\ gLabels = NoLabels) =>
        \A P \in InlineParts, K \in InlineSkipped, Q \in InlineParts :
            prog = JumpOver(P, K, Q) =>
                \A t \in RunAlone(Inlined(P, Q)) : Timed(gTrack[0].gData) = Timed(t.gData)

-----------------------------------------------------------------------------
(* Single commands.                                                        *)

\* the events the command of this step appends, after the label lookup
CmdEvents == SubSeq(NewEvents, Len(Events(CurTrk.gData)) + 1, Len(NewEvents))

\* the 16-bit argument of the tempo command
TempoArg == ReadBE(prog, CurPos, 16).v

TempoStep == Decoding /\ Cmd = 225 /\ TempoArg \in 1..65535

\* C11 as stated: for every non-zero 16-bit argument r the tempo command
\* appends one tempo meta event (type 0x51, length 3) whose three data
\* bytes, read big-endian, are floor(60000000 / r); r = 120 gives 500000.
C11_TempoIsQuotient ==
    [][TempoStep =>
          /\ Len(CmdEvents) = 1
          /\ CmdEvents[1].st = 255
          /\ Len(CmdEvents[1].data) = 4
          /\ CmdEvents[1].data[1] = 81
          /\ (CmdEvents[1].data[2] * 256 + CmdEvents[1].data[3]) * 256 + CmdEvents[1].data[4]
               = 60000000 \div TempoArg]_vars

-----------------------------------------------------------------------------
(* The variable-length codec on its own: PushDelta writes a tick value     *)
(* into the buffer of track 0, the bytes written become the file, and      *)
(* ReadVarLen reads them back.                                             *)

\* every tick up to MaxTick, the values at which the length changes, and
\* the largest values of each length up to 2^32 - 1
TickRange ==
    {W(n) : n \in 0..MaxTick}
    \cup {W(n) : n \in {16383, 16384, 2097151, 2097152, 268435455, 268435456, 2147483647}}
    \cup {[h |-> Half \div 2, l |-> 0], WOnes}

CodecInit ==
    /\ \E t \in TickRange :
          gTrack = [k \in Tracks |-> IF k = 0 THEN [Reset(0) EXCEPT !.gWait = t] ELSE Reset(k)]
    /\ prog = <<>>
    /\ gLabels = NoLabels
    /\ ignoreJumps = FALSE
    /\ debugCtrls = FALSE
    /\ fpos = mdOff
    /\ pc = "encode"
    /\ iTrk = 0
    /\ gTrkCnt = FALSE
    /\ midi = <<>>
    /\ nCalls = 0

\* PushDelta(gWait); what was written is the file to read
CodecPush ==
    /\ pc = "encode"
    /\ gTrack' = [gTrack EXCEPT ![0] = PushDelta(@, @.gWait)]
    /\ prog' = gTrack'[0].gData
    /\ pc' = "decode"
    /\ UNCHANGED <<gLabels, ignoreJumps, debugCtrls, fpos, iTrk, gTrkCnt, midi, nCalls>>

\* ReadVarLen from the start of the file; the value read is kept in gGPos
CodecRead ==
    /\ pc = "decode"
    /\ ~ReadVarLen(prog, fpos).hang
    /\ gTrack' = [gTrack EXCEPT ![0].gGPos = ReadVarLen(prog, fpos).v]
    /\ fpos' = ReadVarLen(prog, fpos).p
    /\ pc' = "decoded"
    /\ UNCHANGED <<prog, gLabels, ignoreJumps, debugCtrls, iTrk, gTrkCnt, midi, nCalls>>

CodecNext == CodecPush \/ CodecRead

CodecSpec == CodecInit /\ [][CodecNext]_vars

\* C12: a tick value t encoded by PushDelta and decoded by ReadVarLen gives
\* exactly t, and the decoder consumes exactly the bytes the encoder wrote,
\* for t in {0, 1, 127, 128, 16383, 16384, 2097151} and for every t of the
\* tick range.
C12_VarLenRoundTrip ==
    pc = "decoded" =>
        /\ gTrack[0].gGPos = gTrack[0].gWait
        /\ prog = gTrack[0].gData
        /\ fpos = FileEnd(prog)

\* 2097151, the largest value of three bytes, has gone through both
C12_Witness ==
    /\ pc = "decoded"
    /\ gTrack[0].gWait = W(2097151)
    /\ prog = <<255, 255, 127>>
    /\ gTrack[0].gGPos = W(2097151)

-----------------------------------------------------------------------------
(* The scheduler.                                                          *)

\* the sessions of splits to a higher and to a lower track, waits and ends:
\* the bytecode that decides which track is on and where its read loop ends
SchedSessions ==
    {Session(Encode(s), NoLabels, FALSE, FALSE) :
        s \in SeqsUpTo(SplitAlpha \ {Split(0, 1)}, SplitMaxLen)}

SchedInit ==
    /\ Init
    /\ Session(prog, gLabels, ignoreJumps, debugCtrls) \in SchedSessions

\* the steps rseqDo takes on these sessions
SchedNext ==
    \/ Begin
    \/ WhileEnter
    \/ TrackEnter
    \/ ForExit
    \/ WriteMidi
    \/ Cmd_80
    \/ Cmd_88
    \/ Cmd_FF

\* rseqDo is one sequential loop: it takes its next step whenever it has one
FairSpec == SchedInit /\ [][SchedNext]_vars /\ WF_vars(SchedNext)

\* the bytecode of the running track does not reach the end of a track: the
\* process has died, a read loops at the end of the file, or the calls go
\* past what the model follows
NeverEnds ==
    \/ pc \in {"crash", "spin"}
    \/ AtEndOfStream
    \/ (Decoding /\ Cmd = 138 /\ nCalls >= MaxCalls)

\* the tracks these sessions start: the entry track and the targets of the
\* splits
SchedTracks == {0, 1, 2}

\* one step of the scheduler in order: the read loop stays on its track and
\* is left only when that track is off; the track entered next has a higher
\* index than the one left, and no track in between is on
InOrder ==
    /\ (pc = "loop" /\ pc' \in {"loop", "crash", "spin"}) => iTrk' = iTrk
    /\ (pc = "loop" /\ pc' = "for") => gTrack'[iTrk].gStat = 0 /\ iTrk' = iTrk + 1
    /\ (pc = "for" /\ pc' = "loop") =>
          /\ iTrk' >= iTrk
          /\ gTrack[iTrk'].gStat # 0
          /\ \A j \in iTrk..(iTrk' - 1) : gTrack[j].gStat = 0
    /\ (pc' = "done") => \A k \in Tracks : gTrack'[k].gStat = 0

\* C13: if the bytecode of every track reaches an end command or a backward
\* jump that is not taken, every track that is on, the entry track or one
\* started by a split from a higher or a lower track, is eventually run
\* until it is off; the file is written only when all sixteen tracks are
\* off; and in a pass the tracks are run in ascending index, each to its end
\* before the next.
C13_EveryTrackIsRun ==
    /\ [][InOrder]_vars
    /\ [](\A k \in Tracks \ SchedTracks : ~Running(k))
    /\ \A k \in SchedTracks : Running(k) ~> (~Running(k) \/ NeverEnds)

\* track 0 starts track 2, which starts the lower track 1; track 1 is run in
\* the next pass, and the file is written with all tracks off
C13_Witness ==
    /\ pc = "done"
    /\ prog = Encode(<<Split(2, 2), Raw(IWait(1)), Split(1, 1), Raw(IEnd)>>)
    /\ gTrack[1].gData # <<>>
    /\ gTrack[2].gData # <<>>
    /\ \A k \in Tracks : ~Running(k)

-----------------------------------------------------------------------------
(* The jump.                                                               *)

JumpStep == Decoding /\ Cmd = 137

\* the target of the jump, and the read position just after its argument
JumpAdr == AddOff(ReadBE(prog, CurPos, 24).v, mdOff)
JumpAfter == ReadBE(prog, CurPos, 24).p

TextCount(ev) == Cardinality({k \in DOMAIN ev : IsText(ev[k])})

\* C14: without -i, a jump whose target is strictly greater than the read
\* position just after its argument moves the read position to the target
\* and leaves the track on; any other jump ends the track as the end
\* command does (note-offs, end of track) and leaves the read position after
\* the argument; both append exactly one text event, before anything else.
C14_JumpForwardOrEnd ==
    [][(JumpStep /\ ~ignoreJumps) =>
        /\ Len(CmdEvents) >= 1
        /\ IsText(CmdEvents[1])
        /\ TextCount(CmdEvents) = 1
        /\ IF JumpAdr > JumpAfter
           THEN /\ fpos' = JumpAdr
                /\ gTrack'[iTrk].gDPos = JumpAdr
                /\ gTrack'[iTrk].gStat # 0
                /\ pc' = "loop"
                /\ iTrk' = iTrk
                /\ Len(CmdEvents) = 1
           ELSE /\ fpos' = JumpAfter
                /\ gTrack'[iTrk].gDPos = gTrack[iTrk].gDPos
                /\ gTrack'[iTrk].gStat = 0
                /\ gTrack'[iTrk].gNote = <<>>
                /\ pc' = "for"
                /\ Len(CmdEvents) = 2 + Len(CurTrk.gNote)
                /\ IsEndOfTrack(CmdEvents[Len(CmdEvents)])
                /\ \A k \in 2..(Len(CmdEvents) - 1) : IsNoteOff(CmdEvents[k], iTrk)]_vars

\* a forward jump has been taken over a command: the track is on, reads at
\* the target and holds the one text event
C14_Witness ==
    /\ ~ignoreJumps
    /\ pc = "loop"
    /\ iTrk = 0
    /\ gTrack[0].gStat # 0
    /\ fpos = gTrack[0].gDPos
    /\ fpos > mdOff + 4
    /\ Events(gTrack[0].gData) = <<Ev(0, 255, <<6>> \o JumpMsg(TRUE, FALSE, TRUE))>>

\* C15: with -i every jump, forward or backward, reads its three argument
\* bytes, appends exactly one text event, leaves the read position at the
\* byte after the argument and the track on; the local time, the sounding
\* notes and the return address are as before.
C15_IgnoredJumpIsNoOp ==
    [][(JumpStep /\ ignoreJumps) =>
        /\ Len(CmdEvents) = 1
        /\ IsText(CmdEvents[1])
        /\ fpos' = JumpAfter
        /\ (fgetc(prog, CurPos + 2) # EOF => JumpAfter = CurPos + 3)
        /\ pc' = "loop"
        /\ iTrk' = iTrk
        /\ gTrack'[iTrk].gStat # 0
        /\ gTrack'[iTrk].gGPos = gTrack[iTrk].gGPos
        /\ gTrack'[iTrk].gNote = gTrack[iTrk].gNote
        /\ gTrack'[iTrk].gRPos = gTrack[iTrk].gRPos
        /\ gTrack'[iTrk].gDPos = gTrack[iTrk].gDPos]_vars

\* a forward jump over a command has been ignored: the read position is at
\* the command it would have passed
C15_Witness ==
    /\ ignoreJumps
    /\ pc = "loop"
    /\ iTrk = 0
    /\ gTrack[0].gStat # 0
    /\ fpos = mdOff + 4
    /\ fgetc(prog, fpos) # EOF
    /\ Events(gTrack[0].gData) = <<Ev(0, 255, <<6>> \o JumpMsg(TRUE, TRUE, TRUE))>>

-----------------------------------------------------------------------------
(* Call and return.                                                        *)

CallStep == Decoding /\ Cmd = 138
CallAdr == AddOff(ReadBE(prog, CurPos, 24).v, mdOff)
CallAfter == ReadBE(prog, CurPos, 24).p

ReturnStep == Decoding /\ Cmd = 253

\* C16: a call stores the position after its three argument bytes as the one
\* return address of the track, whatever it held, and moves the read
\* position to the target; a return with a return address other than zero
\* moves the read position there and clears it, and with zero leaves the
\* read position just past the return command.  So after two calls without
\* a return between them the first return goes to the position after the
\* second call and the next return does nothing.
C16_CallKeepsOneReturnAddress ==
    [][/\ CallStep =>
            /\ gTrack'[iTrk].gRPos = CallAfter
            /\ (fgetc(prog, CurPos + 2) # EOF => CallAfter = CurPos + 3)
            /\ fpos' = CallAdr
            /\ gTrack'[iTrk].gDPos = CallAdr
            /\ CmdEvents = <<>>
            /\ pc' = "loop"
       /\ ReturnStep =>
            /\ gTrack'[iTrk].gRPos = 0
            /\ CmdEvents = <<>>
            /\ pc' = "loop"
            /\ IF gTrack[iTrk].gRPos # 0
               THEN /\ fpos' = gTrack[iTrk].gRPos
                    /\ gTrack'[iTrk].gDPos = gTrack[iTrk].gRPos
               ELSE /\ fpos' = CurPos
                    /\ gTrack'[iTrk].gDPos = gTrack[iTrk].gDPos]_vars

\* call, call, return, return: the first return went to the position after
\* the second call (the return command itself), the second did nothing and
\* the read position is past it
C16_Witness ==
    /\ prog = Encode(<<Call(1), Call(2), Raw(<<253>>)>>)
    /\ pc = "loop"
    /\ nCalls = 2
    /\ gTrack[0].gRPos = 0
    /\ gTrack[0].gDPos = mdOff + 8
    /\ fpos = mdOff + 9

-----------------------------------------------------------------------------
(* Controllers.                                                            *)

IsCtrl(e, idx, num, val) == e.st = 176 + idx /\ e.data = <<num, val>>

\* a bend range command with an argument that is a MIDI data byte
BendRangeStep == Decoding /\ Cmd = 197 /\ fgetc(prog, CurPos) \in 0..127
BendRangeArg == fgetc(prog, CurPos)

\* C17 as stated: every bend range command appends exactly three controller
\* events, (101, 0), (100, 0) and (6, value), whatever gRPNR holds, the
\* second of two bend range commands in a row included.
C17_BendRangeAlwaysTriple ==
    [][BendRangeStep =>
        /\ Len(CmdEvents) = 3
        /\ IsCtrl(CmdEvents[1], iTrk, 101, 0)
        /\ IsCtrl(CmdEvents[2], iTrk, 100, 0)
        /\ IsCtrl(CmdEvents[3], iTrk, 6, BendRangeArg)]_vars

\* C17: a bend range command appends (101, 0), (100, 0), (6, value) when
\* gRPNR is clear, and sets it; when gRPNR is set it appends (6, value)
\* alone.  The second of two bend range commands in a row appends one event.
C17_BendRangeSelectsOnce ==
    [][BendRangeStep =>
        /\ gTrack'[iTrk].gRPNR = 1
        /\ IF gTrack[iTrk].gRPNR = 0
           THEN /\ Len(CmdEvents) = 3
                /\ IsCtrl(CmdEvents[1], iTrk, 101, 0)
                /\ IsCtrl(CmdEvents[2], iTrk, 100, 0)
                /\ IsCtrl(CmdEvents[3], iTrk, 6, BendRangeArg)
           ELSE /\ Len(CmdEvents) = 1
                /\ IsCtrl(CmdEvents[1], iTrk, 6, BendRangeArg)]_vars

\* two bend range commands in a row have run: four events
C17_Witness ==
    /\ prog = <<197, 2, 197, 2>> \o IEnd
    /\ pc = "loop"
    /\ fpos = mdOff + 4
    /\ Events(gTrack[0].gData) =
          <<Ev(0, 176, <<101, 0>>), Ev(0, 176, <<100, 0>>), Ev(0, 176, <<6, 2>>), Ev(0, 176, <<6, 2>>)>>

\* the commands C18 names: C2, C6, C7, C8, D0, D2, D3, D6, D8..DB, E3, FE
QuietCmds == {194, 198, 199, 200, 208, 210, 211, 214, 227, 254} \cup (216..219)

\* the read position after the argument of the command: 16 bits for E3 and
\* FE, 8 bits for the others
QuietAfter == ReadBE(prog, CurPos, IF Cmd \in {227, 254} THEN 16 ELSE 8).p

\* the step appends no event and leaves the pending wait, the local time and
\* the sounding notes as they were
Quiet ==
    /\ CmdEvents = <<>>
    /\ gTrack'[iTrk].gData = CurTrk.gData
    /\ fpos' = QuietAfter
    /\ pc' = "loop"
    /\ gTrack'[iTrk].gWait = CurTrk.gWait
    /\ gTrack'[iTrk].gGPos = CurTrk.gGPos
    /\ gTrack'[iTrk].gNote = CurTrk.gNote

-----------------------------------------------------------------------------
(* Time.                                                                   *)

\* C19 as stated: the local time of a track never decreases across a step,
\* of that track or of another, from its first start to the end of the pass.
C19_LocalTimeNeverDecreases ==
    [][\A k \in Tracks : ~Lt32(gTrack'[k].gGPos, gTrack[k].gGPos)]_vars

\* C20 as stated: in every reachable state every sounding note of every
\* track ends at or after the local time of its track, so that no note-off
\* has a negative delta time.
C20_NotesEndAfterNow ==
    \A k \in Tracks : \A n \in DOMAIN gTrack[k].gNote :
        ~Lt32(gTrack[k].gNote[n].pos, gTrack[k].gGPos)

-----------------------------------------------------------------------------
(* The split and the track that issues it.                                 *)

\* the read position after the track byte and the three offset bytes
SplitAfter == ReadBE(prog, ReadBE(prog, CurPos, 8).p, 24).p

\* C21 as stated: a split changes nothing of the track that issues it but
\* the read position, which passes the four argument bytes: its buffer, its
\* local time, its pending wait, its sounding notes, its return address and
\* its being on are as before, whatever the track byte.
C21_SplitLeavesIssuer ==
    [][(Decoding /\ Cmd = 136) =>
        /\ fpos' = SplitAfter
        /\ gTrack'[iTrk].gData = CurTrk.gData
        /\ gTrack'[iTrk].gGPos = CurTrk.gGPos
        /\ gTrack'[iTrk].gWait = CurTrk.gWait
        /\ gTrack'[iTrk].gNote = CurTrk.gNote
        /\ gTrack'[iTrk].gRPos = CurTrk.gRPos
        /\ gTrack'[iTrk].gStat = CurTrk.gStat]_vars

-----------------------------------------------------------------------------
(* The pitch bend.                                                         *)

\* a bend command with its argument byte in the file
BendStep == Decoding /\ Cmd = 196 /\ fgetc(prog, CurPos) \in 0..255
BendArg == fgetc(prog, CurPos)

\* the two data bytes the step writes: the last two bytes of the buffer
BendLow == gTrack'[iTrk].gData[Len(gTrack'[iTrk].gData) - 1]
BendHigh == gTrack'[iTrk].gData[Len(gTrack'[iTrk].gData)]

\* C22 as stated: for every argument byte 0..255 of the bend command the
\* value 8192 + b * 16384 / 256 lies in 0..16383 and the two data bytes
\* written, the low seven bits and the value shifted right by seven, are at
\* most 127.
C22_BendInRange ==
    [][BendStep =>
        /\ 8192 + (BendArg * 16384) \div 256 \in 0..16383
        /\ Len(gTrack'[iTrk].gData) >= Len(CurTrk.gData) + 4
        /\ gTrack'[iTrk].gData[Len(gTrack'[iTrk].gData) - 2] = 224 + iTrk
        /\ BendLow <= 127
        /\ BendHigh <= 127]_vars

-----------------------------------------------------------------------------
(* The labels.                                                             *)

\* the offset of the read position in the bytecode
CurOffset == fpos - mdOff

\* the events the step appends open with one text event carrying the label
\* of the offset, and no other text event follows but the one of a jump
LabelFirst ==
    /\ Len(Appended) >= 1
    /\ Appended[1] = [delta |-> gTrack[iTrk].gWait, st |-> 255, data |-> <<6>> \o gLabels[CurOffset]]
    /\ TextCount(Appended) = 1 + (IF Cmd = 137 THEN 1 ELSE 0)

\* the step appends no text event but the one of a jump
NoLabel == TextCount(Appended) = (IF Cmd = 137 THEN 1 ELSE 0)

\* C23 as stated: at the start of every step of the read loop, if the offset
\* of the read position has an entry in the label table, exactly one text
\* event carrying that label is appended before any event of the command
\* decoded there, on every visit of the offset; none is appended for an
\* offset without an entry; and no step changes the label table.
C23_LabelOnEveryVisit ==
    [][Decoding =>
        /\ IF CurOffset \in DOMAIN gLabels THEN LabelFirst ELSE NoLabel
        /\ gLabels' = gLabels]_vars

-----------------------------------------------------------------------------
(* The slot a split starts.                                                *)

\* C24 as stated: for every track byte 0..255 of a split, the slot that is
\* started is one of the sixteen of the table, and the step writes nothing
\* outside the table: the labels stay and the process goes on.
C24_SplitStaysInTable ==
    [][(Decoding /\ Cmd = 136 /\ fgetc(prog, CurPos) \in 0..255) =>
        /\ SplitTrk \in Tracks
        /\ gTrack'[SplitTrk].gStat = 1
        /\ gTrack'[SplitTrk].gDPos = SplitAdr
        /\ gLabels' = gLabels
        /\ pc' = "loop"]_vars

-----------------------------------------------------------------------------
(* The parameter selected in a buffer.                                     *)

IsCtrlEvent(e) == e.st \in 176..191 /\ Len(e.data) = 2

\* a controller that selects a parameter: NRPN 98 and 99, RPN 100 and 101
IsSelect(e) == IsCtrlEvent(e) /\ e.data[1] \in {98, 99, 100, 101}

IsDataEntry(e) == IsCtrlEvent(e) /\ e.data[1] = 6

\* the last selection before event n of ev is the pair (101, 0), (100, 0)
Rpn00Before(ev, n) ==
    \E m \in 1..(n - 2) :
        /\ IsCtrlEvent(ev[m]) /\ ev[m].data = <<101, 0>>
        /\ IsCtrlEvent(ev[m + 1]) /\ ev[m + 1].data = <<100, 0>>
        /\ \A j \in (m + 2)..(n - 1) : ~IsSelect(ev[j])

\* the last selection before event n of ev is an NRPN pair and the data
\* entry follows it at once, as mNRPN writes it
NrpnBefore(ev, n) ==
    /\ n >= 3
    /\ IsCtrlEvent(ev[n - 2]) /\ ev[n - 2].data[1] = 99
    /\ IsCtrlEvent(ev[n - 1]) /\ ev[n - 1].data[1] = 98

\* C25 as stated: in the buffer of every track every data entry (controller
\* 6) that a bend range command wrote has the pair (101, 0), (100, 0) before
\* it with no other selection between, and gRPNR is set only when the last
\* selection in the buffer is that pair; after any commands, NRPN commands
\* and tracks started more than once included.
C25_DataEntryHasSelection ==
    \A k \in Tracks :
        LET ev == Events(gTrack[k].gData)
        IN  /\ \A n \in DOMAIN ev :
                  IsDataEntry(ev[n]) => (Rpn00Before(ev, n) \/ NrpnBefore(ev, n))
            /\ gTrack[k].gRPNR = 1 => Rpn00Before(ev, Len(ev) + 1)

====
